---- MODULE Spec2Model ----
(***************************************************************************)
(* msrfuzz: enumerate the MSRs that RDMSR accepts, through /dev/cpu/0/msr. *)
(* A state machine of src/main.rs: main() pins itself to the target core,  *)
(* opens the MSR device, probes the two address regions with msr_read,     *)
(* prints the BTreeMap of the values found and closes the device.          *)
(*                                                                         *)
(* The operating system is the environment: each system call the program   *)
(* makes (sched_setaffinity, open, pread, close) returns one of the        *)
(* results the call can return, chosen nondeterministically.  The writes   *)
(* of println!/eprintln! are taken to succeed.                             *)
(*                                                                         *)
(* A u32 address is the pair <<high 16 bits, low 16 bits>>: 0xc000_0000    *)
(* does not fit the integers of the model checker.  The order of u32 is    *)
(* the lexicographic order of the pairs.                                   *)
(***************************************************************************)
EXTENDS Integers, Sequences, FiniteSets

VARIABLES
    pc,        \* where main() is
    affinity,  \* result of sched_setaffinity: "unset", "Ok" or "Err"
    opened,    \* result of the open of msr_open, tag "unset" before the call
    fd,        \* the device handle: "none", "open" or "closed"
    closes,    \* number of calls of msr_close
    cur,       \* start of the range the running for loop iterates
    log,       \* the calls of msr_read so far, in order
    output,    \* the BTreeMap
    iter,      \* keys the iterator of &output has not yielded yet
    stdout,    \* lines written by println!
    stderr,    \* lines written by eprintln!
    exit       \* "running", or how the process ended: "ok", "err", "panic"

vars == <<pc, affinity, opened, fd, closes, cur, log, output, iter, stdout,
          stderr, exit>>

-----------------------------------------------------------------------------
(* Bounds of the model: the number of addresses of each region it scans.   *)
LoLen == 2
HiLen == 2

(* Contents of the registers of the modelled core (the environment).       *)
RegValues == {0, 426}

(* Error numbers the system calls of the model fail with.                  *)
Errnos == {"EIO", "EACCES", "EBADF"}

-----------------------------------------------------------------------------
(* u32 arithmetic on <<high, low>> pairs.                                  *)
WORD == 2^16

AddrLess(a, b) == a[1] < b[1] \/ (a[1] = b[1] /\ a[2] < b[2])

AddrSucc_by_two(a) == <<a[1], a[2] + 2>>

AddrSucc(a) == IF a[2] = WORD - 1 THEN <<a[1] + 1, 0>> ELSE <<a[1], a[2] + 1>>

RECURSIVE AddrAdd(_, _)
AddrAdd(a, k) == IF k = 0 THEN a ELSE AddrAdd(AddrSucc(a), k - 1)

(* const REGION_LO_3950X = 0x0000_0000..0x0000_1000, of which the model    *)
(* scans the first LoLen addresses.                                        *)
REGION_LO_START == <<0, 0>>
REGION_LO_END == AddrAdd(REGION_LO_START, LoLen)

(* const REGION_HI_3950X = 0xc000_0000..0xc002_0000 (0xc000 = 49152), of   *)
(* which the model scans the first HiLen addresses.                        *)
REGION_HI_START_overlapping == <<0, 1>>

REGION_HI_START == <<49152, 0>>
REGION_HI_END == AddrAdd(REGION_HI_START, HiLen)

RangeHasNext_inclusive(start, end) == AddrLess(start, end) \/ start = end

(* Range<u32>::next: the range yields its start while start < end.         *)
RangeHasNext(start, end) == AddrLess(start, end)

-----------------------------------------------------------------------------
(* let mut buf = [0u8; 8]                                                  *)
BUF_LEN == 8

RECURSIVE ToLeBytes(_, _)
ToLeBytes(v, k) ==
    IF k = 0 THEN <<>> ELSE <<v % 256>> \o ToLeBytes(v \div 256, k - 1)

(* u64::from_le_bytes: the first byte is the least significant.            *)
RECURSIVE FromLeBytes(_)
FromLeBytes(b) ==
    IF b = <<>> THEN 0 ELSE Head(b) + 256 * FromLeBytes(Tail(b))

(* The buffer after pread stored the first n bytes of the register value v *)
(* into the zeroed buf.                                                    *)
BufAfterRead(v, n) ==
    [i \in 1..BUF_LEN |-> IF i <= n THEN ToLeBytes(v, BUF_LEN)[i] ELSE 0]

(* What nix::sys::uio::pread(fd, &mut buf, msr) can return: Ok(n) with n   *)
(* bytes stored, Err(Sys(errno)), or an Err that is not Sys.               *)
PreadResults ==
    {[tag |-> "Ok", n |-> n, buf |-> BufAfterRead(v, n), eno |-> "none"] :
        v \in RegValues, n \in 0..BUF_LEN}
    \cup {[tag |-> "Sys", n |-> 0, buf |-> BufAfterRead(0, 0), eno |-> e] :
        e \in Errnos}
    \cup {[tag |-> "Other", n |-> 0, buf |-> BufAfterRead(0, 0),
           eno |-> "none"]}

msr_read_eio_fatal(res) ==
    IF res.tag = "Ok" THEN [tag |-> "Ok", val |-> FromLeBytes(res.buf)]
    ELSE [tag |-> "Panic", val |-> 0]

msr_read_any_errno(res) ==
    IF res.tag = "Ok" THEN [tag |-> "Ok", val |-> FromLeBytes(res.buf)]
    ELSE IF res.tag = "Sys"
         THEN [tag |-> "Err", val |-> 0]
         ELSE [tag |-> "Panic", val |-> 0]

msr_read_skip_all(res) ==
    IF res.tag = "Ok" THEN [tag |-> "Ok", val |-> FromLeBytes(res.buf)]
    ELSE [tag |-> "Err", val |-> 0]

(* msr_read's match on the result of pread: Ok(value), Err("Unsupported    *)
(* MSR") or a panic.                                                       *)
msr_read(res) ==
    IF res.tag = "Ok" THEN [tag |-> "Ok", val |-> FromLeBytes(res.buf)]
    ELSE IF res.tag = "Sys" /\ res.eno = "EIO"
         THEN [tag |-> "Err", val |-> 0]
         ELSE [tag |-> "Panic", val |-> 0]

(* What nix::fcntl::open can return.                                       *)
OpenResults ==
    {[tag |-> "Ok", eno |-> "none"], [tag |-> "Other", eno |-> "none"]}
    \cup {[tag |-> "Sys", eno |-> e] : e \in Errnos}

msr_open_always_panics(res) == IF res.tag = "Ok" THEN "Ok" ELSE "Panic"

(* msr_open's match on the result of open: Ok(fd), Err("Permission         *)
(* denied") or a panic.                                                    *)
msr_open(res) ==
    IF res.tag = "Ok" THEN "Ok"
    ELSE IF res.tag = "Sys" /\ res.eno = "EACCES" THEN "Err" ELSE "Panic"

unwrap_ignored(res) == "Ok"

(* Result::unwrap on the result of sched_setaffinity.                      *)
unwrap(res) == IF res = "Ok" THEN "Ok" ELSE "Panic"

(* msr_close's match on the result of close.                               *)
msr_close(res) == IF res = "Ok" THEN "Ok" ELSE "Panic"

insert_if_absent(map, k, v) ==
    IF DOMAIN map = {} THEN [a \in {k} |-> v] ELSE map

(* BTreeMap::insert: the value of key k becomes v.                         *)
insert(map, k, v) ==
    [a \in DOMAIN map \cup {k} |-> IF a = k THEN v ELSE map[a]]

BTreeNext_greatest(keys) ==
    CHOOSE k \in keys : \A j \in keys : ~AddrLess(k, j)

(* The iterator of &BTreeMap yields the least of the keys it has left.     *)
BTreeNext(keys) == CHOOSE k \in keys : \A j \in keys : ~AddrLess(j, k)

-----------------------------------------------------------------------------
(* Formatting: {:08x} and {:016x}.                                         *)
HexDigit == <<"0", "1", "2", "3", "4", "5", "6", "7", "8", "9",
              "a", "b", "c", "d", "e", "f">>

RECURSIVE Hex(_, _)
Hex(n, width) ==
    IF width = 0 THEN <<>>
    ELSE Hex(n \div 16, width - 1) \o <<HexDigit[(n % 16) + 1]>>

Hex08(a) == Hex(a[1], 4) \o Hex(a[2], 4)

Hex016(v) == Hex(v, 16)

(* eprintln!("Found MSR {:08x}", msr)                                      *)
FoundLine(msr) == <<"Found MSR ">> \o Hex08(msr)

(* println!("{:08x}: {:016x}", msr, val)                                   *)
OutputLine(msr, val) == Hex08(msr) \o <<": ">> \o Hex016(val)

-----------------------------------------------------------------------------
EmptyMap == [a \in {} |-> 0]

Init ==
    /\ pc = "affinity"
    /\ affinity = "unset"
    /\ opened = [tag |-> "unset", eno |-> "none"]
    /\ fd = "none"
    /\ closes = 0
    /\ cur = REGION_LO_START
    /\ log = <<>>
    /\ output = EmptyMap
    /\ iter = {}
    /\ stdout = <<>>
    /\ stderr = <<>>
    /\ exit = "running"

(* The process ends: how is "ok" (main returned Ok), "err" (main returned  *)
(* Err) or "panic".                                                        *)
Terminate(how) ==
    /\ pc' = "exit"
    /\ exit' = how

(* cpuset.set(TGT_CORE).unwrap(); sched_setaffinity(..).unwrap()           *)
SetAffinity ==
    /\ pc = "affinity"
    /\ \E res \in {"Ok", "Err"} :
        /\ affinity' = res
        /\ IF unwrap(res) = "Ok"
           THEN /\ pc' = "open"
                /\ UNCHANGED exit
           ELSE Terminate("panic")
    /\ UNCHANGED <<opened, fd, closes, cur, log, output, iter, stdout,
                   stderr>>

(* let fd = match msr_open(TGT_CORE) { Ok(fd) => fd, Err(e) => return      *)
(* Err(e) }                                                                *)
Open ==
    /\ pc = "open"
    /\ \E res \in OpenResults :
        LET r == msr_open(res) IN
        /\ opened' = res
        /\ IF r = "Ok"
           THEN /\ fd' = "open"
                /\ pc' = "scan_lo"
                /\ cur' = REGION_LO_START
                /\ UNCHANGED exit
           ELSE /\ Terminate(IF r = "Err" THEN "err" ELSE "panic")
                /\ UNCHANGED <<fd, cur>>
    /\ UNCHANGED <<affinity, closes, log, output, iter, stdout, stderr>>

Probe_notify_all(res) ==
    LET ret == msr_read(res)
        entry == [msr |-> cur,
                  rd |-> [tag |-> res.tag, eno |-> res.eno,
                          full |-> (res.tag = "Ok" /\ res.n = BUF_LEN)],
                  ret |-> ret,
                  fd |-> fd]
    IN  /\ log' = Append(log, entry)
        /\ IF ret.tag = "Panic"
           THEN /\ Terminate("panic")
                /\ UNCHANGED <<cur, output, stderr>>
           ELSE /\ cur' = AddrSucc(cur)
                /\ UNCHANGED <<pc, exit>>
                /\ stderr' = Append(stderr, FoundLine(cur))
                /\ IF ret.tag = "Ok"
                   THEN output' = insert(output, cur, ret.val)
                   ELSE UNCHANGED output
        /\ UNCHANGED <<affinity, opened, fd, closes, iter, stdout>>

(* The body of both for loops: if let Ok(val) = msr_read(fd, msr) {        *)
(* eprintln!(..); output.insert(msr, val); }                               *)
Probe(res) ==
    LET ret == msr_read(res)
        entry == [msr |-> cur,
                  rd |-> [tag |-> res.tag, eno |-> res.eno,
                          full |-> (res.tag = "Ok" /\ res.n = BUF_LEN)],
                  ret |-> ret,
                  fd |-> fd]
    IN  /\ log' = Append(log, entry)
        /\ IF ret.tag = "Panic"
           THEN /\ Terminate("panic")
                /\ UNCHANGED <<cur, output, stderr>>
           ELSE /\ cur' = AddrSucc(cur)
                /\ UNCHANGED <<pc, exit>>
                /\ IF ret.tag = "Ok"
                   THEN /\ stderr' = Append(stderr, FoundLine(cur))
                        /\ output' = insert(output, cur, ret.val)
                   ELSE UNCHANGED <<output, stderr>>
        /\ UNCHANGED <<affinity, opened, fd, closes, iter, stdout>>

(* for msr in REGION_LO_3950X { .. }                                       *)
ProbeLo ==
    /\ pc = "scan_lo"
    /\ RangeHasNext(cur, REGION_LO_END)
    /\ \E res \in PreadResults : Probe(res)

LoDone ==
    /\ pc = "scan_lo"
    /\ ~RangeHasNext(cur, REGION_LO_END)
    /\ pc' = "scan_hi"
    /\ cur' = REGION_HI_START
    /\ UNCHANGED <<affinity, opened, fd, closes, log, output, iter, stdout,
                   stderr, exit>>

(* for msr in REGION_HI_3950X { .. }                                       *)
ProbeHi ==
    /\ pc = "scan_hi"
    /\ RangeHasNext(cur, REGION_HI_END)
    /\ \E res \in PreadResults : Probe(res)

(* The second loop ends and for (msr, val) in &output takes its iterator.  *)
HiDone ==
    /\ pc = "scan_hi"
    /\ ~RangeHasNext(cur, REGION_HI_END)
    /\ pc' = "report"
    /\ iter' = DOMAIN output
    /\ UNCHANGED <<affinity, opened, fd, closes, cur, log, output, stdout,
                   stderr, exit>>

(* for (msr, val) in &output { println!("{:08x}: {:016x}", msr, val); }    *)
ReportLine ==
    /\ pc = "report"
    /\ iter /= {}
    /\ LET msr == BTreeNext(iter) IN
        /\ stdout' = Append(stdout, OutputLine(msr, output[msr]))
        /\ iter' = iter \ {msr}
    /\ UNCHANGED <<pc, affinity, opened, fd, closes, cur, log, output, stderr,
                   exit>>

ReportDone ==
    /\ pc = "report"
    /\ iter = {}
    /\ pc' = "close"
    /\ UNCHANGED <<affinity, opened, fd, closes, cur, log, output, iter, stdout,
                   stderr, exit>>

(* msr_close(fd); Ok(())                                                   *)
Close ==
    /\ pc = "close"
    /\ closes' = closes + 1
    /\ \E res \in {"Ok", "Err"} :
        IF msr_close(res) = "Ok"
        THEN /\ fd' = "closed"
             /\ Terminate("ok")
        ELSE /\ fd' \in {"open", "closed"}
             /\ Terminate("panic")
    /\ UNCHANGED <<affinity, opened, cur, log, output, iter, stdout,
                   stderr>>

Next ==
    \/ SetAffinity
    \/ Open
    \/ ProbeLo
    \/ LoDone
    \/ ProbeHi
    \/ HiDone
    \/ ReportLine
    \/ ReportDone
    \/ Close

Spec == Init /\ [][Next]_vars

(* main() is one sequential thread and each of its steps is one bounded    *)
(* system call or loop step: a step that can be taken is taken.            *)
FairSpec == Spec /\ WF_vars(Next)

-----------------------------------------------------------------------------
(* Vocabulary of the properties.                                           *)

(* The Candidate Address Space of the model, written out from the bounds.  *)
RegionLo == {AddrAdd(REGION_LO_START, i) : i \in 0..(LoLen - 1)}
RegionHi == {AddrAdd(REGION_HI_START, i) : i \in 0..(HiLen - 1)}
Space == RegionLo \cup RegionHi

Probes == 1..Len(log)

(* Both for loops have ended.                                              *)
ScanDone == pc \in {"report", "close"} \/ closes > 0

(* The read of log entry e failed with something other than EIO.           *)
UnexpectedRead(e) ==
    e.rd.tag /= "Ok" /\ ~(e.rd.tag = "Sys" /\ e.rd.eno = "EIO")

(* C1. Coverage: every address msr_read was called on lies in the          *)
(* Candidate Address Space, no address is probed twice, and once the scan  *)
(* has completed every address of the space has been probed (hence exactly *)
(* once).                                                                  *)
C1_Coverage ==
    /\ \A i \in Probes : log[i].msr \in Space
    /\ \A i, j \in Probes : i /= j => log[i].msr /= log[j].msr
    /\ ScanDone => \A a \in Space : \E i \in Probes : log[i].msr = a

C1_Witness == ScanDone /\ Len(log) = LoLen + HiLen

(* C2. Result Map correctness: when the scan has completed, the map handed *)
(* to the report loop has an entry (a, v) exactly when a is in the space   *)
(* and msr_read(a) returned Ok(v); an address whose probe returned         *)
(* Err("Unsupported MSR") has no entry.                                    *)
C2_ResultMap ==
    ScanDone =>
        /\ DOMAIN output =
              {a \in Space : \E i \in Probes :
                  log[i].msr = a /\ log[i].ret.tag = "Ok"}
        /\ \A i \in Probes :
              log[i].ret.tag = "Ok" => output[log[i].msr] = log[i].ret.val
        /\ \A i \in Probes :
              log[i].ret.tag = "Err" => log[i].msr \notin DOMAIN output

C2_Witness ==
    /\ pc = "report"
    /\ \E i, j, k \in Probes :
          /\ log[i].ret.tag = "Err"
          /\ log[j].ret = [tag |-> "Ok", val |-> 426]
          /\ log[k].ret = [tag |-> "Ok", val |-> 0]

(* C3. Abort-on-unexpected: a probe whose read fails with anything but EIO *)
(* is the last probe of the run; the process has then ended with a panic,  *)
(* the report loop never ran and nothing was written to standard output.   *)
C3_AbortOnUnexpected ==
    \A i \in Probes :
        UnexpectedRead(log[i]) =>
            /\ i = Len(log)
            /\ pc = "exit"
            /\ exit = "panic"
            /\ stdout = <<>>
            /\ iter = {}
            /\ closes = 0

C3_Witness ==
    /\ Len(log) >= 2
    /\ UnexpectedRead(log[Len(log)])
    /\ DOMAIN output /= {}

(* C4. Handle release: the handle is open at every probe, msr_close is     *)
(* never called twice, and a run that acquired the handle has called       *)
(* msr_close exactly once by the time the process has ended, whether the   *)
(* scan completed or a probe aborted it.                                   *)
C4_HandleReleasedOnce ==
    /\ \A i \in Probes : log[i].fd = "open"
    /\ closes <= 1
    /\ (pc = "exit" /\ opened.tag = "Ok") => closes = 1

(* C5. Short reads: msr_read returns Ok(value) only when pread stored all  *)
(* BUF_LEN bytes; a pread that succeeds with fewer bytes makes msr_read    *)
(* panic, so no entry of the map comes from a short read.                  *)
C5_ShortReadIsFatal ==
    \A i \in Probes :
        /\ log[i].ret.tag = "Ok" => log[i].rd.full
        /\ (log[i].rd.tag = "Ok" /\ ~log[i].rd.full) =>
              (log[i].ret.tag = "Panic" /\ log[i].msr \notin DOMAIN output)

(* C6. Error-code classification: a probe whose read failed returned       *)
(* Err("Unsupported MSR") if and only if the error is Sys(EIO), and was    *)
(* then skipped without an entry; every other failed read panicked, ended  *)
(* the process on the spot and was not skipped.                            *)
C6_ErrorClassification ==
    \A i \in Probes :
        log[i].rd.tag /= "Ok" =>
            /\ log[i].ret.tag = "Err" <=>
                  (log[i].rd.tag = "Sys" /\ log[i].rd.eno = "EIO")
            /\ log[i].ret.tag /= "Ok"
            /\ log[i].msr \notin DOMAIN output
            /\ UnexpectedRead(log[i]) =>
                  /\ log[i].ret.tag = "Panic"
                  /\ i = Len(log)
                  /\ pc = "exit"
                  /\ exit = "panic"

C6_Witness ==
    \E i, j \in Probes :
        /\ i < j
        /\ log[i].rd.eno = "EIO"
        /\ log[j].rd.eno = "EACCES"

(* C7. Access denial on open: when open fails with EACCES, main returns    *)
(* the error of msr_open (the process ends with an error, not a panic),    *)
(* with no probe, no output line and no call of msr_close; every other     *)
(* failure of open is a panic in msr_open, likewise before any probe.      *)
C7_OpenDenied ==
    /\ (opened.tag = "Sys" /\ opened.eno = "EACCES") =>
          /\ pc = "exit"
          /\ exit = "err"
    /\ (opened.tag \in {"Sys", "Other"} /\ opened.eno /= "EACCES") =>
          /\ pc = "exit"
          /\ exit = "panic"
    /\ opened.tag \in {"Sys", "Other"} =>
          /\ fd = "none"
          /\ log = <<>>
          /\ stdout = <<>>
          /\ closes = 0

C7_Witness == opened.tag = "Sys" /\ opened.eno = "EACCES" /\ exit = "err"

(* C8. Affinity before probing: open is called and msr_read is called only *)
(* after sched_setaffinity succeeded; if it failed the process ended with  *)
(* a panic and neither call was ever made.                                 *)
C8_AffinityFirst ==
    /\ (opened.tag /= "unset" \/ fd /= "none" \/ log /= <<>>) =>
          affinity = "Ok"
    /\ affinity = "Err" =>
          /\ pc = "exit"
          /\ exit = "panic"
          /\ opened.tag = "unset"
          /\ log = <<>>

C8_Witness == affinity = "Ok" /\ Len(log) >= 1 /\ fd = "open"

(* The lines the report has to consist of: the entry of the i-th least key *)
(* of the map, for i = 1, 2, ..                                            *)
Rank(a, keys) == Cardinality({b \in keys : AddrLess(b, a)}) + 1

KeyOfRank(i, keys) == CHOOSE a \in keys : Rank(a, keys) = i

ExpectedReport ==
    [i \in 1..Cardinality(DOMAIN output) |->
        LET a == KeyOfRank(i, DOMAIN output) IN OutputLine(a, output[a])]

ReportDoneNow == pc = "close" \/ closes > 0

(* C9 as stated. Report only after successful completion: output lines    *)
(* exist only once every address has been probed, each entry is reported   *)
(* at most once, a run that ends with a fatal condition or an error has    *)
(* written no output line, and a run that wrote output lines ends          *)
(* successfully.                                                           *)
C9_ReportOnlyOnSuccess ==
    /\ stdout /= <<>> => (ScanDone /\ Len(log) = LoLen + HiLen)
    /\ Len(stdout) <= Cardinality(DOMAIN output)
    /\ (pc = "exit" /\ exit /= "ok") => stdout = <<>>
    /\ (pc = "exit" /\ stdout /= <<>>) => exit = "ok"

(* C9 as amended. Output lines exist only once every address has been      *)
(* probed and no probe failed unexpectedly; each entry is reported at most *)
(* once; a run that ends with a panic of sched_setaffinity, open or a      *)
(* probe, or with the error of msr_open, has written no output line; a run *)
(* that wrote output lines ends successfully unless msr_close fails, which *)
(* happens only after the whole report was written.                        *)
C9_ReportOnlyAfterScan ==
    /\ stdout /= <<>> =>
          /\ ScanDone
          /\ Len(log) = LoLen + HiLen
          /\ \A i \in Probes : ~UnexpectedRead(log[i])
    /\ Len(stdout) <= Cardinality(DOMAIN output)
    /\ (pc = "exit" /\ exit /= "ok" /\ closes = 0) => stdout = <<>>
    /\ (pc = "exit" /\ stdout /= <<>>) =>
          \/ exit = "ok"
          \/ exit = "panic" /\ closes = 1 /\ stdout = ExpectedReport

C9_Witness ==
    /\ pc = "exit"
    /\ exit = "panic"
    /\ closes = 1
    /\ Len(stdout) >= 2

(* C10. Ordering of output: the lines written so far are the entries of    *)
(* the map in strictly ascending order of address, one line per entry, and *)
(* when the report loop has ended every entry has its line.                *)
C10_AscendingReport ==
    /\ Len(stdout) <= Cardinality(DOMAIN output)
    /\ \A i \in 1..Len(stdout) : stdout[i] = ExpectedReport[i]
    /\ ReportDoneNow => Len(stdout) = Cardinality(DOMAIN output)

C10_Witness ==
    /\ ReportDoneNow
    /\ Len(stdout) >= 3
    /\ DOMAIN output \cap RegionLo /= {}
    /\ DOMAIN output \cap RegionHi /= {}

(* C11. No duplicate keys, no overwrite: a step never removes a key of the *)
(* map nor changes the value stored under it, a step that changes the map  *)
(* adds exactly one key, and every probe for which msr_read returned Ok    *)
(* inserts at an address that was not a key before the step.               *)
C11_NoOverwrite ==
    [][/\ \A a \in DOMAIN output :
              a \in DOMAIN output' /\ output'[a] = output[a]
       /\ output' /= output =>
              \E a \in Space \ DOMAIN output :
                  DOMAIN output' = DOMAIN output \cup {a}
       /\ (Len(log') = Len(log) + 1 /\ log'[Len(log')].ret.tag = "Ok") =>
              /\ log'[Len(log')].msr \notin DOMAIN output
              /\ log'[Len(log')].msr \in DOMAIN output'
              /\ Cardinality(DOMAIN output') = Cardinality(DOMAIN output) + 1
      ]_vars

C11_Witness ==
    /\ pc = "scan_hi"
    /\ Cardinality(DOMAIN output) >= 3
    /\ DOMAIN output \cap RegionHi /= {}

(* The scan visited the whole space; the scan was aborted by its first     *)
(* failed read other than EIO.                                             *)
ScanFull ==
    /\ ScanDone
    /\ Len(log) = LoLen + HiLen
    /\ \A i \in Probes : ~UnexpectedRead(log[i])

ScanAborted ==
    /\ pc = "exit"
    /\ exit = "panic"
    /\ closes = 0
    /\ log /= <<>>
    /\ UnexpectedRead(log[Len(log)])
    /\ \A i \in 1..(Len(log) - 1) : ~UnexpectedRead(log[i])

(* A read that failed with EIO neither ended the run nor was repeated: the *)
(* next probe, if any, is of another address.                              *)
EioGoesOn ==
    \A i \in Probes :
        (log[i].rd.tag = "Sys" /\ log[i].rd.eno = "EIO") =>
            /\ \A j \in Probes : j /= i => log[j].msr /= log[i].msr
            /\ i = Len(log) => (pc /= "exit" \/ closes = 1)

(* C12. Termination without retry: under fair scheduling, once the handle  *)
(* is acquired the run reaches the end of the scan, which is either the    *)
(* full space visited or the abort at the first unexpected failure, never  *)
(* both, and the process then ends; an EIO probe is never retried and      *)
(* never stops the scan.                                                   *)
C12_Termination ==
    /\ [](EioGoesOn /\ ~(ScanFull /\ ScanAborted))
    /\ (opened.tag = "Ok") ~> (pc = "exit" /\ (ScanFull \/ ScanAborted))

C12_Witness ==
    /\ pc = "exit"
    /\ exit = "ok"
    /\ ScanFull
    /\ \E i \in Probes : log[i].rd.eno = "EIO"

(* The k-th address after start, in u32 arithmetic.                        *)
NthFrom(start, k) ==
    <<start[1] + ((start[2] + k) \div WORD), (start[2] + k) % WORD>>

(* The scan order: the first range ascending, then the second ascending.   *)
ScanOrder ==
    [i \in 1..(LoLen + HiLen) |->
        IF i <= LoLen THEN NthFrom(REGION_LO_START, i - 1)
        ELSE NthFrom(REGION_HI_START, i - 1 - LoLen)]

(* C14. Scan order: the i-th probe of a run is of the i-th address of the  *)
(* concatenation of the two ranges, each ascending, whatever the earlier   *)
(* probes returned: nothing is skipped or reordered, and every address of  *)
(* the first range is probed before any address of the second.             *)
C14_ScanOrder ==
    /\ Len(log) <= LoLen + HiLen
    /\ \A i \in Probes : log[i].msr = ScanOrder[i]
    /\ \A i, j \in Probes :
          (log[i].msr \in RegionLo /\ log[j].msr \in RegionHi) => i < j
    /\ pc = "scan_hi" => Len(log) >= LoLen

C14_Witness ==
    /\ Len(log) = LoLen + HiLen
    /\ log[LoLen + 1].msr = REGION_HI_START
    /\ log[1].ret.tag = "Err"
    /\ log[LoLen].ret.tag = "Ok"

(* The probes for which msr_read returned Ok, in scan order.               *)
IsOk(e) == e.ret.tag = "Ok"

Found == SelectSeq(log, IsOk)

(* C15. Progress notifications: the lines on the diagnostic stream are the *)
(* "Found MSR" lines of the probes that returned Ok, in scan order, one    *)
(* per such probe; a probe that returned Err("Unsupported MSR") adds no    *)
(* line and no entry; at every moment the notified addresses are exactly   *)
(* the keys of the map, and a step writes a line if and only if it inserts *)
(* that line's address.                                                    *)
C15_Notifications ==
    /\ [](/\ Len(stderr) = Len(Found)
          /\ \A i \in 1..Len(Found) : stderr[i] = FoundLine(Found[i].msr)
          /\ DOMAIN output = {Found[i].msr : i \in 1..Len(Found)}
          /\ Len(stderr) = Cardinality(DOMAIN output))
    /\ [][/\ stderr' /= stderr <=> output' /= output
          /\ stderr' /= stderr =>
                /\ pc \in {"scan_lo", "scan_hi"}
                /\ stderr' = Append(stderr, FoundLine(cur))
                /\ DOMAIN output' = DOMAIN output \cup {cur}
                /\ log'[Len(log')].ret.tag = "Ok"
          /\ (Len(log') > Len(log) /\ log'[Len(log')].ret.tag = "Err") =>
                (stderr' = stderr /\ output' = output)
         ]_vars

C15_Witness ==
    /\ Len(stderr) = 2
    /\ Len(log) = LoLen + HiLen
    /\ log[1].ret.tag = "Ok"
    /\ log[2].ret.tag = "Err"
    /\ log[LoLen + HiLen].ret.tag = "Ok"

====
